---- MODULE Spec2Model ----
(***************************************************************************)
(* Model of the shotgun one-shot SPMC channel (src/src/shotgun.rs, and the *)
(* synchronous-only variant src/src/lib.rs).                               *)
(*                                                                         *)
(* One channel: one Sender, the shared cell _Receiver {value, wakers}      *)
(* behind one Mutex, and the Receiver duplicates.  Tasks (threads or async *)
(* tasks) call try_recv, poll and recv on the duplicates; every call takes *)
(* the Mutex, runs its body holding the guard, and releases it when the    *)
(* guard goes out of scope at the return: a critical section, one step.    *)
(* send holds the guard over the store and over every wake() call, which   *)
(* run the executors' code: one step each.                                 *)
(*                                                                         *)
(* Spec: the channel with wakers that only notify and code that does not   *)
(* panic.  ThreadSpec: the threads of test_works_in_threads.  PoisonSpec:  *)
(* Spec plus panics under the guard and calls on the poisoned Mutex.       *)
(* InlineSpec: Spec plus wakers whose wake() runs the woken task at once.  *)
(***************************************************************************)
EXTENDS Naturals, Sequences, FiniteSets

\* ------------------------------------------------------------------ bounds
NumTasks == 2
MaxReceivers == 2
\* The longest registry followed: a poll that would push one more is left out.
MaxWakers == 2

Tasks == 1..NumTasks
Handles == 1..MaxReceivers
\* The values of T a Sender may transmit.
Values == {"a", "b"}
\* The Waker objects a task's Context may carry into poll: a waker is the
\* pair <<task, object>>; wake() on either object wakes the task, and
\* Waker::will_wake compares the objects.  Task 1 is polled through a
\* combinator that may hand poll a second waker object for the same task;
\* that one, "x", has a clone() that makes a new object every time (its
\* vtable's clone returns another data pointer), where the clones of "w"
\* are the same object as "w" (a shared pointer).
WakerIds == {"w", "x"}
WakersOf(a) == IF a = 1 THEN WakerIds ELSE {"w"}

None == "None"
Pending == "Pending"
Ptr == TRUE

VARIABLES
    value,      \* _Receiver.value : None or the value
    wakers,     \* _Receiver.wakers : Vec<Waker>
    lock,       \* the Mutex: Free, or who holds its guard (BySender, ByTask)
    rx,         \* per Receiver duplicate: "unborn", "live" or "dropped"
    sender,     \* the Sender: [pc, receiver, arg, todo]
    task,       \* per task: where its program stands
    woken,      \* the wakers whose wake() has been called, in call order
    waiting,    \* per duplicate: <<a, via>> when its last poll, by task a,
                \* returned Poll::Pending (and it was not dropped since);
                \* else <<>>
    ev,         \* what the last step returned to its caller: NoEv, or
                \* [op, res, after] for a try_recv, poll or recv
    observed    \* every value a try_recv, poll or recv has returned so far

vars == <<value, wakers, lock, rx, sender, task, woken, waiting, ev, observed>>

\* The Mutex's states: unlocked, or locked by the holder of the guard.
Free == <<>>
BySender == <<"sender">>
ByTask(a) == <<"task", a>>
\* Unlocked and poisoned: a holder of the guard panicked, and the unwinding
\* dropped the guard.
Poisoned == <<"poisoned">>

\* Where a thread of test_works_in_threads stands in its loop.
Idle == [pc |-> "idle"]
Locked == [pc |-> "locked"]
Asleep == [pc |-> "sleep"]
Returning == [pc |-> "return"]
Done == [pc |-> "returned"]
NoEv == [op |-> "none"]

\* ------------------------------------------------------------ pure code

\* _Receiver::try_recv: self.value.clone()
Inner_try_recv(v) == v

\* Waker::will_wake as the code uses it: the two handles are the same waker.
will_wake(w1, w2) == w1 = w2

\* Waker::clone of w, the n-th clone made of that waker: w itself, or for a
\* waker whose clones are new objects, a new object that will_wake does not
\* take for w nor for any other clone of it.
CloneWaker(w, n) == IF w[2] = "x" THEN <<w[1], w[2], n>> ELSE w

\* How many of the handles in ws are clones of the waker w is a clone of.
Clones(ws, w) ==
    Cardinality({k \in 1..Len(ws) : ws[k][1] = w[1] /\ ws[k][2] = w[2]})

\* The else-branch of poll: push cx.waker().clone() unless a registered
\* waker will_wake cx.waker().
Register(ws, w) ==
    IF \A i \in 1..Len(ws) : ~will_wake(ws[i], w)
    THEN Append(ws, CloneWaker(w, Clones(ws, w) + 1))
    ELSE ws

\* A poll that registers its waker whether or not it found a value.
PollResult_alwaysRegisters(v, ws, w) ==
    [res |-> IF v # None THEN v ELSE Pending, wakers |-> Register(ws, w)]

\* A poll that registers an unknown waker before it looks at the value.
PollResult_registerFirst(v, ws, w) ==
    IF Register(ws, w) # ws
    THEN [res |-> Pending, wakers |-> Register(ws, w)]
    ELSE [res |-> IF v # None THEN v ELSE Pending, wakers |-> ws]

\* Future::poll's body under the lock: the result and the registry after it.
PollResult(v, ws, w) ==
    IF v # None
    THEN [res |-> v, wakers |-> ws]
    ELSE [res |-> Pending, wakers |-> Register(ws, w)]

\* A set that leaves the cell as it was.
SetValue_keep(old, v) == old

\* _Receiver::set, first statement: self.value = Some(value)
SetValue(old, v) == v

RECURSIVE Reverse(_)
Reverse(ws) == IF ws = <<>> THEN <<>> ELSE Append(Reverse(Tail(ws)), Head(ws))

\* Vec<Waker>::clone: a Vec of the clones of the entries, made front to
\* back, after the clones that made the entries themselves.
VecClone(ws) ==
    [k \in 1..Len(ws) |->
        CloneWaker(ws[k], Clones(ws, ws[k]) + Clones(SubSeq(ws, 1, k), ws[k]))]

\* A loop that pops the wakers off the end of the cloned Vec.
WakersToWake_rev(ws) == Reverse(VecClone(ws))

\* A loop that misses the first registered waker.
WakersToWake_tail(ws) == IF ws = <<>> THEN ws ELSE Tail(VecClone(ws))

\* _Receiver::set, the loop's iterator: self.wakers.clone()
WakersToWake(ws) == VecClone(ws)

\* A channel() whose cell starts out holding a value.
NewCell_seeded == [value |-> "a", wakers |-> <<>>]

\* channel(): the fresh cell, _Receiver { value: None, wakers: Vec::new() }
NewCell == [value |-> None, wakers |-> <<>>]

\* channel(): the Sender, its _Sender.receiver pointing at the fresh cell
NewSender == [pc |-> "live", receiver |-> Ptr, arg |-> None, todo |-> <<>>]

\* A send(&self, ..) that leaves the Sender usable.
Consumed_borrowed == "live"

\* Sender::send(self, ..) takes the Sender by value: it is gone afterwards.
Consumed == "sent"

\* A recv whose completion closes every duplicate.
ConsumeSelf_all(r, h) == [g \in DOMAIN r |-> IF r[g] = "live" THEN "dropped" ELSE r[g]]

\* Receiver::recv(self) takes the duplicate by value: when the future
\* completes, that duplicate (and no other) is dropped.
ConsumeSelf(r, h) == [r EXCEPT ![h] = "dropped"]

\* Mutex::lock() on a Mutex nobody holds: Ok(guard), or Err(PoisonError).
LockResult(l) == IF l = Poisoned THEN "Err" ELSE "Ok"


\* A caller that takes the PoisonError as "no value" and returns.
Expect_recover(op) == [op |-> op, res |-> None]

\* .expect("Mutex is poisoned") on Err(PoisonError): the call panics.
Expect(op) == [op |-> op, res |-> "Mutex is poisoned"]

\* ---------------------------------------------------------------- helpers

Live(h) == rx[h] = "live"
\* The duplicate is in nobody's recv future: its holder can lend it out.
Held(h) == Live(h) /\ (IF waiting[h] = <<>> THEN TRUE ELSE waiting[h][2] = "poll")
NextUnborn == CHOOSE h \in Handles :
                 rx[h] = "unborn" /\ \A g \in Handles : g < h => rx[g] # "unborn"
Returned(e) == ev' = e
\* A read returned r; after: some read had returned a value before this one.
Read(op, r) == [op |-> op, res |-> r, after |-> observed # {}]
Observe(v) == observed' = IF v \in Values THEN observed \cup {v} ELSE observed

\* ------------------------------------------------------------------- Init

\* channel(): an empty cell, one Sender and one Receiver sharing it.
Init ==
    /\ value = NewCell.value
    /\ wakers = NewCell.wakers
    /\ lock = Free
    /\ rx = [h \in Handles |-> IF h = 1 THEN "live" ELSE "unborn"]
    /\ sender = NewSender
    /\ task = [a \in Tasks |-> Idle]
    /\ woken = <<>>
    /\ waiting = [h \in Handles |-> <<>>]
    /\ ev = NoEv
    /\ observed = {}

\* ---------------------------------------------------------------- Receiver

\* #[derive(Clone)] on Receiver: a new duplicate holding the same Arc.
Clone(h) ==
    /\ Held(h)
    /\ \E g \in Handles : rx[g] = "unborn"
    /\ rx' = [rx EXCEPT ![NextUnborn] = "live"]
    /\ Returned(NoEv)
    /\ UNCHANGED <<value, wakers, lock, sender, task, woken, waiting, observed>>

\* drop(rx), or the drop of the recv future the duplicate was moved into (the
\* awaiting task is cancelled or gives up): the duplicate is gone, the cell
\* lives on in the other Arcs, and what poll registered stays registered.
DropReceiver(h) ==
    /\ Live(h)
    /\ rx' = [rx EXCEPT ![h] = "dropped"]
    /\ waiting' = [waiting EXCEPT ![h] = <<>>]
    /\ Returned(NoEv)
    /\ UNCHANGED <<value, wakers, lock, sender, task, woken, observed>>

\* Receiver::try_recv once lock() has returned: _Receiver::try_recv under the
\* guard, which drops at the return.
TryRecvBody ==
    /\ LET r == Inner_try_recv(value) IN
         /\ Returned(Read("try_recv", r))
         /\ Observe(r)
    /\ lock' = Free
    /\ UNCHANGED <<value, wakers, sender, woken, waiting>>

\* Receiver::try_recv(&self) on duplicate h: Mutex::lock hands the caller
\* the guard (a caller that finds the Mutex locked waits in lock() until it
\* is free), _Receiver::try_recv runs under it, and the guard drops at the
\* return.
Receiver_try_recv(h) ==
    /\ Held(h)
    /\ lock = Free
    /\ TryRecvBody
    /\ rx' = rx

\* try_recv called by any thread.
TryRecv(h) ==
    /\ Receiver_try_recv(h)
    /\ UNCHANGED task

\* A poll that looks at the value before it takes the lock: by the time it
\* registers under the guard, what it saw may be out of date.
Poll_checkThenLock(a, h, via, i) ==
    /\ IF Held(h) THEN TRUE ELSE Live(h) /\ via = "recv"
    /\ lock = Free
    /\ \E seen \in {None, value} :
         LET r == PollResult(seen, wakers, <<a, i>>) IN
         /\ Len(r.wakers) <= MaxWakers
         /\ wakers' = r.wakers
         /\ waiting' = [waiting EXCEPT
                           ![h] = IF r.res = Pending THEN <<a, via>> ELSE <<>>]
         /\ Observe(r.res)
         /\ IF via = "recv" /\ r.res # Pending
            THEN /\ rx' = ConsumeSelf(rx, h)
                 /\ Returned(Read("recv", r.res))
            ELSE /\ rx' = rx
                 /\ Returned(Read("poll", r.res))
    /\ lock' = Free
    /\ UNCHANGED <<value, sender, task, woken>>

\* Future::poll by task a's executor on duplicate h with cx.waker() = <<a, i>>:
\* the whole call, lock to return.  via = "poll": the task polls a duplicate
\* it holds (Pin<&mut rx>); via = "recv": the task awaits rx.recv() (or rx
\* itself), which moved the duplicate into the awaited future, and this is a
\* poll of that future, by whichever task holds the future now: Ready
\* completes it and drops the duplicate with it.
Poll(a, h, via, i) ==
    /\ IF Held(h) THEN TRUE ELSE Live(h) /\ via = "recv"
    /\ lock = Free
    /\ LET r == PollResult(value, wakers, <<a, i>>) IN
         /\ Len(r.wakers) <= MaxWakers
         /\ wakers' = r.wakers
         /\ waiting' = [waiting EXCEPT
                           ![h] = IF r.res = Pending THEN <<a, via>> ELSE <<>>]
         /\ Observe(r.res)
         /\ IF via = "recv" /\ r.res # Pending
            THEN /\ rx' = ConsumeSelf(rx, h)
                 /\ Returned(Read("recv", r.res))
            ELSE /\ rx' = rx
                 /\ Returned(Read("poll", r.res))
    /\ lock' = Free
    /\ UNCHANGED <<value, sender, task, woken>>

\* ------------------------------------------------------------------ Sender

\* A send that insists on a live Receiver and panics without one.
SendLock_checked(v) ==
    /\ sender.pc = "live"
    /\ lock = Free
    /\ IF \A h \in Handles : ~Live(h)
       THEN /\ sender' = [sender EXCEPT !.pc = "panicked", !.arg = v]
            /\ lock' = lock
       ELSE /\ sender' = [sender EXCEPT !.pc = "set", !.arg = v]
            /\ lock' = BySender
    /\ Returned(NoEv)
    /\ UNCHANGED <<value, wakers, rx, task, woken, waiting, observed>>

\* Sender::send(self, value) -> _Sender::send: the receiver is Some, and
\* Mutex::lock hands the sender the guard.
SendLock(v) ==
    /\ sender.pc = "live"
    /\ sender.receiver = Ptr
    /\ lock = Free
    /\ lock' = BySender
    /\ sender' = [sender EXCEPT !.pc = "set", !.arg = v]
    /\ Returned(NoEv)
    /\ UNCHANGED <<value, wakers, rx, task, woken, waiting, observed>>

\* _Receiver::set: the store, then the clone of the registry to iterate.
SendSet ==
    /\ sender.pc = "set"
    /\ lock = BySender
    /\ value' = SetValue(value, sender.arg)
    /\ sender' = [sender EXCEPT !.pc = "wake", !.todo = WakersToWake(wakers)]
    /\ Returned(NoEv)
    /\ UNCHANGED <<wakers, lock, rx, task, woken, waiting, observed>>

\* A loop that gives up at the first handle nobody is waiting behind.
SendWake_stopsAtStale ==
    /\ sender.pc = "wake"
    /\ sender.todo # <<>>
    /\ IF \E h \in Handles : waiting[h] # <<>> /\ waiting[h][1] = Head(sender.todo)[1]
       THEN /\ woken' = Append(woken, Head(sender.todo))
            /\ sender' = [sender EXCEPT !.todo = Tail(sender.todo)]
       ELSE /\ woken' = woken
            /\ sender' = [sender EXCEPT !.todo = <<>>]
    /\ Returned(NoEv)
    /\ UNCHANGED <<value, wakers, lock, rx, task, waiting, observed>>

\* One iteration of the loop: waker.wake().
SendWake ==
    /\ sender.pc = "wake"
    /\ sender.todo # <<>>
    /\ woken' = Append(woken, Head(sender.todo))
    /\ sender' = [sender EXCEPT !.todo = Tail(sender.todo)]
    /\ Returned(NoEv)
    /\ UNCHANGED <<value, wakers, lock, rx, task, waiting, observed>>

\* A send that returns without letting go of the guard.
SendReturn_keepsLock ==
    /\ sender.pc = "wake"
    /\ sender.todo = <<>>
    /\ lock = BySender
    /\ sender' = [sender EXCEPT !.pc = Consumed]
    /\ Returned([op |-> "send"])
    /\ UNCHANGED <<value, wakers, lock, rx, task, woken, waiting, observed>>

\* The loop is over: set returns, the guard drops, send returns.
SendReturn ==
    /\ sender.pc = "wake"
    /\ sender.todo = <<>>
    /\ lock = BySender
    /\ lock' = Free
    /\ sender' = [sender EXCEPT !.pc = Consumed]
    /\ Returned([op |-> "send"])
    /\ UNCHANGED <<value, wakers, rx, task, woken, waiting, observed>>

\* A drop of the Sender that takes the guard and never gives it back.
DropSender_holdsLock ==
    /\ sender.pc = "live"
    /\ lock = Free
    /\ lock' = BySender
    /\ sender' = [sender EXCEPT !.pc = "dropped"]
    /\ Returned(NoEv)
    /\ UNCHANGED <<value, wakers, rx, task, woken, waiting, observed>>

\* A drop of the Sender that wakes every waiter to tell it the channel closed.
DropSender_wakes ==
    /\ sender.pc = "live"
    /\ lock = Free
    /\ woken' = woken \o wakers
    /\ sender' = [sender EXCEPT !.pc = "dropped"]
    /\ Returned(NoEv)
    /\ UNCHANGED <<value, wakers, lock, rx, task, waiting, observed>>

\* drop(tx) without a send: Sender has no Drop impl, the cell is untouched.
DropSender ==
    /\ sender.pc = "live"
    /\ sender' = [sender EXCEPT !.pc = "dropped"]
    /\ Returned(NoEv)
    /\ UNCHANGED <<value, wakers, lock, rx, task, woken, waiting, observed>>

\* -------------------------------------------------------------------- Next

Next ==
    \/ \E h \in Handles : Clone(h)
    \/ \E h \in Handles : DropReceiver(h)
    \/ \E h \in Handles : TryRecv(h)
    \/ \E a \in Tasks, h \in Handles, via \in {"poll", "recv"} :
          \E i \in WakersOf(a) : Poll(a, h, via, i)
    \/ \E v \in Values : SendLock(v)
    \/ SendSet
    \/ SendWake
    \/ SendReturn
    \/ DropSender

Spec == Init /\ [][Next]_vars

\* ---------------------------------------------------------------- threads
\* test_works_in_threads: thread a loops on try_recv of its own duplicate
\* (duplicate a), sleeping between attempts, until it sees Some; the main
\* thread clones the duplicates and sends.  Here a try_recv is two steps,
\* lock() and the rest, so that the threads and send meet at the Mutex.

Threads == Tasks \cap Handles

\* rx.try_recv(): Mutex::lock hands thread a the guard.
ThreadLock(a) ==
    /\ task[a].pc = "idle"
    /\ Held(a)
    /\ lock = Free
    /\ lock' = ByTask(a)
    /\ task' = [task EXCEPT ![a] = Locked]
    /\ Returned(NoEv)
    /\ UNCHANGED <<value, wakers, rx, sender, woken, waiting, observed>>

\* if rx.try_recv().is_some() { .. }: the call returns, its guard dropped.
ThreadTryRecv(a) ==
    /\ task[a].pc = "locked"
    /\ lock = ByTask(a)
    /\ TryRecvBody
    /\ rx' = rx
    /\ task' = [task EXCEPT
                   ![a] = IF Inner_try_recv(value) # None THEN Returning ELSE Asleep]

\* return a; the closure ends, and with it the duplicate it owns is dropped.
ThreadReturn(a) ==
    /\ task[a].pc = "return"
    /\ rx' = ConsumeSelf(rx, a)
    /\ task' = [task EXCEPT ![a] = Done]
    /\ Returned(NoEv)
    /\ UNCHANGED <<value, wakers, lock, sender, woken, waiting, observed>>

\* The main thread, which has made the threads' duplicates by then, calls
\* tx.send(v) and waits in Mutex::lock.
MainSendCall(v) ==
    /\ sender.pc = "live"
    /\ \A a \in Threads : rx[a] # "unborn"
    /\ sender.receiver = Ptr
    /\ sender' = [sender EXCEPT !.pc = "called", !.arg = v]
    /\ Returned(NoEv)
    /\ UNCHANGED <<value, wakers, lock, rx, task, woken, waiting, observed>>

\* Mutex::lock hands the main thread the guard.
MainSendLock ==
    /\ sender.pc = "called"
    /\ lock = Free
    /\ lock' = BySender
    /\ sender' = [sender EXCEPT !.pc = "set"]
    /\ Returned(NoEv)
    /\ UNCHANGED <<value, wakers, rx, task, woken, waiting, observed>>

\* thread::sleep(..) is over: the loop starts again.
ThreadSleep(a) ==
    /\ task[a].pc = "sleep"
    /\ task' = [task EXCEPT ![a] = Idle]
    /\ Returned(NoEv)
    /\ UNCHANGED <<value, wakers, lock, rx, sender, woken, waiting, observed>>

ThreadNext ==
    \/ \E h \in Handles : Clone(h)
    \/ \E a \in Threads : ThreadLock(a)
    \/ \E a \in Threads : ThreadTryRecv(a)
    \/ \E a \in Threads : ThreadReturn(a)
    \/ \E a \in Threads : ThreadSleep(a)
    \/ \E v \in Values : MainSendCall(v)
    \/ MainSendLock
    \/ SendSet
    \/ SendReturn

\* Every thread is scheduled again and again, and none of the steps blocks
\* except on the Mutex.  A lock() gets the Mutex if the Mutex stays free for
\* it; std's Mutex promises no more, and no turn to a thread that waits
\* while others take the Mutex again and again.
ThreadFairness ==
    /\ WF_vars(\E h \in Handles : Clone(h))
    /\ WF_vars(MainSendLock)
    /\ \A a \in Threads : /\ WF_vars(ThreadLock(a))
                            /\ WF_vars(ThreadTryRecv(a))
                            /\ WF_vars(ThreadReturn(a))
                            /\ WF_vars(ThreadSleep(a))
    /\ WF_vars(SendSet)
    /\ WF_vars(SendReturn)

ThreadSpec == Init /\ [][ThreadNext]_vars /\ ThreadFairness

\* ----------------------------------------------------------------- poison
\* The code the channel runs while it holds the guard and that is not its
\* own: Waker::clone and Waker::wake (the executor's), T::clone and T's
\* Debug::fmt (the value's).  Any of them may panic: the call returns
\* nothing to its caller, the unwinding drops the guard, which poisons the
\* Mutex, and from then on lock() returns Err.

\* What a panic in a poll leaves of the duplicates: a poll of a recv future
\* unwinds through recv, which owns the duplicate and drops it; a poll of a
\* duplicate its caller holds leaves it with the caller.
UnwindPoll(h, via) ==
    /\ rx' = IF via = "recv" THEN ConsumeSelf(rx, h) ELSE rx
    /\ waiting' = IF via = "recv" THEN [waiting EXCEPT ![h] = <<>>] ELSE waiting

\* poll finds no value and no registered waker that will_wake cx.waker(),
\* and cx.waker().clone() panics.
PollPanics(a, h, via, i) ==
    /\ IF Held(h) THEN TRUE ELSE Live(h) /\ via = "recv"
    /\ lock = Free
    /\ value = None
    /\ Register(wakers, <<a, i>>) # wakers
    /\ lock' = Poisoned
    /\ UnwindPoll(h, via)
    /\ Returned(NoEv)
    /\ UNCHANGED <<value, wakers, sender, task, woken, observed>>

\* poll, by the task that holds h or awaits its recv future, finds a value
\* and its clone() panics.
PollClonePanics(h, via) ==
    /\ IF Held(h) THEN TRUE ELSE Live(h) /\ via = "recv"
    /\ lock = Free
    /\ value # None
    /\ lock' = Poisoned
    /\ UnwindPoll(h, via)
    /\ Returned(NoEv)
    /\ UNCHANGED <<value, wakers, sender, task, woken, observed>>

\* The derived Debug of a Receiver or of the Sender: Mutex's fmt takes the
\* guard with try_lock and formats the cell under it; the value's fmt panics.
DebugPanics ==
    /\ \/ \E h \in Handles : Held(h)
       \/ sender.pc = "live"
    /\ lock = Free
    /\ value # None
    /\ lock' = Poisoned
    /\ Returned(NoEv)
    /\ UNCHANGED <<value, wakers, rx, sender, task, woken, waiting, observed>>

\* try_recv finds a value and its clone() panics.
TryRecvPanics(h) ==
    /\ Held(h)
    /\ lock = Free
    /\ value # None
    /\ lock' = Poisoned
    /\ Returned(NoEv)
    /\ UNCHANGED <<value, wakers, rx, sender, task, woken, waiting, observed>>

\* set's self.wakers.clone() where the Waker::clone of an entry panics: the
\* value is stored, no wake() has been called, and send ends in the panic.
SendClonePanics ==
    /\ sender.pc = "set"
    /\ wakers # <<>>
    /\ lock = BySender
    /\ value' = SetValue(value, sender.arg)
    /\ lock' = Poisoned
    /\ sender' = [sender EXCEPT !.pc = "panicked"]
    /\ Returned(NoEv)
    /\ UNCHANGED <<wakers, rx, task, woken, waiting, observed>>

\* An iteration of set's loop whose waker.wake() is called and panics: the
\* rest of the loop is skipped and send ends in the panic.
SendWakePanics ==
    /\ sender.pc = "wake"
    /\ sender.todo # <<>>
    /\ lock = BySender
    /\ lock' = Poisoned
    /\ woken' = Append(woken, Head(sender.todo))
    /\ sender' = [sender EXCEPT !.pc = "panicked", !.todo = Tail(sender.todo)]
    /\ Returned(NoEv)
    /\ UNCHANGED <<value, wakers, rx, task, waiting, observed>>

\* Receiver::try_recv, on any duplicate somebody holds, on a poisoned Mutex:
\* lock() is Err, expect panics.
TryRecvPoisoned ==
    /\ \E h \in Handles : Held(h)
    /\ LockResult(lock) = "Err"
    /\ Returned(Expect("try_recv"))
    /\ UNCHANGED <<value, wakers, lock, rx, sender, task, woken, waiting, observed>>

\* Future::poll of a duplicate its caller holds, on a poisoned Mutex: lock()
\* is Err, expect panics.
PollPoisoned ==
    /\ \E h \in Handles : Held(h)
    /\ LockResult(lock) = "Err"
    /\ Returned(Expect("poll"))
    /\ UNCHANGED <<value, wakers, lock, rx, sender, task, woken, waiting, observed>>

\* A poll of the future rx.recv(), the first or a later one, on a poisoned
\* Mutex: expect panics in Future::poll and the panic unwinds through recv.
RecvPoisoned(h) ==
    /\ Live(h)
    /\ LockResult(lock) = "Err"
    /\ UnwindPoll(h, "recv")
    /\ Returned(Expect("poll"))
    /\ UNCHANGED <<value, wakers, lock, sender, task, woken, observed>>

\* _Sender::send on a poisoned Mutex: lock() is Err, expect panics before
\* set is called.
SendPoisoned(v) ==
    /\ sender.pc = "live"
    /\ sender.receiver = Ptr
    /\ LockResult(lock) = "Err"
    /\ sender' = [sender EXCEPT !.pc = "panicked", !.arg = v]
    /\ Returned(Expect("send"))
    /\ UNCHANGED <<value, wakers, lock, rx, task, woken, waiting, observed>>

PoisonNext ==
    \/ Next
    \/ \E a \in Tasks, h \in Handles, via \in {"poll", "recv"} :
          \E i \in WakersOf(a) : PollPanics(a, h, via, i)
    \/ \E h \in Handles, via \in {"poll", "recv"} : PollClonePanics(h, via)
    \/ \E h \in Handles : TryRecvPanics(h)
    \/ DebugPanics
    \/ SendClonePanics
    \/ SendWakePanics
    \/ TryRecvPoisoned
    \/ PollPoisoned
    \/ \E h \in Handles : RecvPoisoned(h)
    \/ \E v \in Values : SendPoisoned(v)

PoisonSpec == Init /\ [][PoisonNext]_vars

\* ------------------------------------------------------------ inline wake
\* What wake() does is the executor's business.  Most executors put the
\* task on a queue; one that runs the woken task at once, on the thread that
\* called wake(), runs the task's code inside set's loop, under the guard.

\* waker.wake() of such a waker: its task's code starts to run.
SendWakeRun ==
    /\ sender.pc = "wake"
    /\ sender.todo # <<>>
    /\ lock = BySender
    /\ woken' = Append(woken, Head(sender.todo))
    /\ sender' = [sender EXCEPT !.pc = "inline", !.todo = Tail(sender.todo)]
    /\ Returned(NoEv)
    /\ UNCHANGED <<value, wakers, lock, rx, task, waiting, observed>>

\* The task's code comes back without a call on the channel: wake() returns.
InlineReturn ==
    /\ sender.pc = "inline"
    /\ sender' = [sender EXCEPT !.pc = "wake"]
    /\ Returned(NoEv)
    /\ UNCHANGED <<value, wakers, lock, rx, task, woken, waiting, observed>>

\* The task's code calls try_recv or poll on its duplicate h: Mutex::lock()
\* on a Mutex its own thread holds.  std leaves the outcome open but for
\* this: the call does not return.  Here the thread waits for itself.
InlineDeadlock(h) ==
    /\ sender.pc = "inline"
    /\ Live(h)
    /\ lock = BySender
    /\ sender' = [sender EXCEPT !.pc = "relock"]
    /\ Returned(NoEv)
    /\ UNCHANGED <<value, wakers, lock, rx, task, woken, waiting, observed>>

\* The same call where lock() panics instead: the unwinding leaves wake(),
\* set and send, and drops the guard, poisoning the Mutex.
InlinePanic(h) ==
    /\ sender.pc = "inline"
    /\ Live(h)
    /\ lock = BySender
    /\ lock' = Poisoned
    /\ sender' = [sender EXCEPT !.pc = "panicked"]
    /\ Returned(NoEv)
    /\ UNCHANGED <<value, wakers, rx, task, woken, waiting, observed>>

\* The steps of the thread that called send, once it has the guard.
SenderStep ==
    \/ SendSet
    \/ SendWake
    \/ SendWakeRun
    \/ InlineReturn
    \/ \E h \in Handles : InlineDeadlock(h)
    \/ \E h \in Handles : InlinePanic(h)
    \/ SendReturn

\* No code of the executor or of T panics here: the one panic is lock()'s.
InlineNext ==
    \/ Next
    \/ TryRecvPoisoned
    \/ PollPoisoned
    \/ \E h \in Handles : RecvPoisoned(h)
    \/ SendWakeRun
    \/ InlineReturn
    \/ \E h \in Handles : InlineDeadlock(h)
    \/ \E h \in Handles : InlinePanic(h)

\* The thread in send is scheduled again and again; a call made on a free
\* Mutex is one step and needs no fairness.
InlineSpec == Init /\ [][InlineNext]_vars /\ WF_vars(SenderStep)

\* ------------------------------------------------------------------ claims

IsRead(e) == e.op \in {"try_recv", "poll", "recv"}
SendDone == sender.pc = "sent"
NotSent == sender.pc \in {"live", "dropped"}

\* C1: once send(v) has completed, every try_recv on every duplicate returns
\* Some(v); and once any read has returned a value, no try_recv returns None.
C1_TryRecvAfterSend ==
    ev.op = "try_recv" =>
        /\ SendDone => ev.res = sender.arg /\ ev.res \in Values
        /\ ev.after => ev.res # None

\* C1 witness: after the send, a try_recv on a clone (the first duplicate is
\* gone) returned the sent value, as a read before it had.
C1_Witness ==
    /\ SendDone
    /\ rx[1] = "dropped" /\ rx[2] = "live"
    /\ ev.op = "try_recv" /\ ev.after /\ ev.res = sender.arg /\ ev.res = "b"

\* C2: as long as send has not stored a value, every try_recv on every
\* duplicate returns None.
C2_TryRecvBeforeSend ==
    (ev.op = "try_recv" /\ (NotSent \/ sender.pc = "set")) => ev.res = None

\* C2 witness: before any send, a try_recv on a clone (the first duplicate is
\* gone) returned None.
C2_Witness ==
    /\ sender.pc = "live"
    /\ rx[1] = "dropped" /\ rx[2] = "live"
    /\ ev.op = "try_recv" /\ ev.res = None

\* C3: the value is write-once: once set it never changes, set does not run
\* again, and all reads that returned a value returned the same one.
C3_WriteOnce ==
    /\ [][value # None => value' = value /\ sender'.pc # "set"]_vars
    /\ [](Cardinality(observed) <= 1 /\ (value = None => observed = {}))

\* C3 witness: the value is set and a poll that followed another read
\* returned it.
C3_Witness ==
    /\ value \in Values /\ observed = {value}
    /\ ev.op = "poll" /\ ev.after /\ ev.res = value

Notified(a) == \E k \in 1..Len(woken) : woken[k][1] = a

\* C4: when send has completed, every task still suspended on a duplicate
\* (its last poll returned Pending) has been notified, and every poll after
\* the send, by a task that was suspended or by a new one, returns Ready(v).
C4_WaitersResumed ==
    /\ SendDone => \A h \in Handles :
                      waiting[h] # <<>> => Notified(waiting[h][1])
    /\ (SendDone /\ ev.op \in {"poll", "recv"}) => ev.res = sender.arg

\* C4 witness: two wakers were notified by the send, one suspended task has
\* been re-polled and got the value, another is still to be re-polled.
C4_Witness ==
    /\ SendDone /\ Len(woken) >= 2
    /\ ev.op = "recv" /\ ev.res = sender.arg
    /\ \E h \in Handles : waiting[h] # <<>>

\* C5: once the Sender is dropped without a send, the cell stays empty: every
\* try_recv returns None, every poll Pending, and the Mutex is free, so no
\* call waits for it.
C5_SenderDropped ==
    sender.pc = "dropped" =>
        /\ value = None /\ lock = Free
        /\ ev.op = "try_recv" => ev.res = None
        /\ ev.op \in {"poll", "recv"} => ev.res = Pending

\* C5 witness: the Sender is dropped and a try_recv on a clone returned None.
C5_Witness ==
    /\ sender.pc = "dropped"
    /\ rx[1] = "dropped" /\ rx[2] = "live"
    /\ ev.op = "try_recv" /\ ev.res = None

NoReceivers == \A h \in Handles : ~Live(h)

\* C6: with every duplicate dropped, send still runs to its end (it finds the
\* Mutex free, keeps the guard until it returns, and has no failing state),
\* and nothing it does reaches a reader: no read returns, no duplicate comes
\* back.
C6_SendWithoutReceivers ==
    /\ [](NoReceivers =>
            /\ sender.pc \in {"live", "dropped", "set", "wake", "sent"}
            /\ sender.pc \in {"set", "wake"} <=> lock = BySender
            /\ sender.pc \in {"live", "dropped", "sent"} <=> lock = Free)
    /\ [][NoReceivers =>
            /\ ~IsRead(ev') /\ observed' = observed
            /\ rx' = rx /\ waiting' = waiting]_vars

\* C6 witness: every duplicate is dropped, nothing was ever read, and send
\* has returned after notifying a handle registered before the drop.
C6_Witness ==
    /\ NoReceivers /\ observed = {}
    /\ ev.op = "send" /\ SendDone /\ lock = Free /\ value = sender.arg
    /\ woken # <<>>

\* C7: while the value has not been stored, every poll returns Pending (no
\* recv completes) and no wake handle has been invoked.
C7_NoSpuriousResume ==
    /\ value = None => woken = <<>>
    /\ (ev.op \in {"poll", "recv"} /\ (NotSent \/ sender.pc = "set")) =>
          ev.op = "poll" /\ ev.res = Pending

\* C7 witness: no value will come, two wakers are registered after repeated
\* polls, and the last poll returned Pending.
C7_Witness ==
    /\ sender.pc = "dropped" /\ value = None
    /\ Len(wakers) >= 2 /\ woken = <<>>
    /\ ev.op = "poll" /\ ev.res = Pending

\* C8: once a read has returned the value v, every poll of every duplicate
\* returns Ready(v), never Pending.
C8_ReadyIsTerminal ==
    (ev.op \in {"poll", "recv"} /\ ev.after) =>
        ev.res \in Values /\ observed = {ev.res}

\* C8 witness: a poll that followed an earlier read of the value returned
\* Ready again; the registry holds the one waker registered before the send.
C8_Witness ==
    /\ ev.op = "poll" /\ ev.after /\ ev.res \in Values
    /\ Len(wakers) = 1 /\ wakers[1] = <<1, "w">>

\* C9: recv completes only with the value the Sender sent, never while the
\* cell is empty; after the send a poll of the recv future is never Pending;
\* and its completion drops exactly the duplicate it was called on, leaving
\* every other duplicate as it was.
C9_Recv ==
    /\ [](ev.op = "recv" =>
            ev.res \in Values /\ ev.res = value /\ ev.res = sender.arg /\ SendDone)
    /\ [](SendDone => ~(ev.op = "poll" /\ ev.res = Pending))
    /\ [][ev'.op = "recv" =>
            \E h \in Handles :
                /\ rx[h] = "live"
                /\ rx' = [rx EXCEPT ![h] = "dropped"]
                /\ \A g \in Handles \ {h} : waiting'[g] = waiting[g]]_vars

\* C9 witness: a recv completed with the sent value while another duplicate
\* is live, with a task still suspended on it.
C9_Witness ==
    /\ ev.op = "recv" /\ ev.res = sender.arg
    /\ \E h \in Handles : Live(h) /\ waiting[h] # <<>>

AllReturned == \A a \in Threads : task[a].pc = "returned"

\* What the threads read and when they leave their loops: whatever the
\* interleaving, a try_recv returns None or Some(v), nothing else, and a
\* thread leaves its loop only on Some(v), dropping its duplicate.
ThreadReads ==
    /\ [](ev.op = "try_recv" => ev.res \in {None, sender.arg})
    /\ [](\A a \in Threads :
             task[a].pc \in {"return", "returned"} =>
                 /\ value = sender.arg /\ value \in Values
                 /\ rx[a] = IF task[a].pc = "returned" THEN "dropped" ELSE "live")
    /\ [][\A a \in Threads :
             (task[a].pc # "return" /\ task'[a].pc = "return") =>
                 ev'.op = "try_recv" /\ ev'.res = sender.arg /\ ev'.res \in Values]_vars

\* C10: with every thread looping on try_recv of its own duplicate, once send
\* has been called every thread sees Some(v) and returns; and no try_recv
\* returns anything but None or Some(v).
C10_ThreadsTerminate ==
    /\ (sender.pc = "called") ~> AllReturned
    /\ ThreadReads

\* C10 as amended: every thread sees Some(v) and returns once send has taken
\* the Mutex (a send that waits in lock() may wait for ever while the threads
\* keep taking the Mutex); and no try_recv returns anything but None or
\* Some(v).
C10_TerminateOnceLocked ==
    /\ (lock = BySender) ~> AllReturned
    /\ ThreadReads

\* C10 witness: the send is over and two threads have returned, each after a
\* try_recv that returned the sent value, and their duplicates are dropped.
C10_Witness ==
    /\ AllReturned /\ Cardinality(Threads) >= 2
    /\ SendDone /\ observed = {sender.arg}
    /\ \A a \in Threads : rx[a] = "dropped"

Calls == {"try_recv", "poll", "recv", "send"}

\* C11: on a poisoned Mutex every try_recv, poll and send ends in the panic
\* of expect("Mutex is poisoned"): whatever call was the last step in a state
\* with the Mutex poisoned gave that panic, not a value, None or Pending, and
\* a send that ended so has stored nothing.  (The call that poisons the Mutex
\* panics under the guard and returns nothing.)
C11_PoisonPanics ==
    lock = Poisoned =>
        /\ ev.op \in Calls => ev = Expect(ev.op) /\ ev.res = "Mutex is poisoned"
        /\ ev.op = "send" => sender.pc = "panicked" /\ value = None
        /\ observed # {} => value # None

\* C11 witness: a poll panicked under the guard before any send; on the
\* poisoned Mutex the send panicked without storing, and then a try_recv
\* panicked.
C11_Witness ==
    /\ lock = Poisoned /\ value = None
    /\ sender.pc = "panicked" /\ sender.arg \in Values
    /\ ev = Expect("try_recv")

\* The wakers in ws that wake task a.
HandlesOf(a, ws) == {ws[k] : k \in {j \in 1..Len(ws) : ws[j][1] = a}}
SeqRange(ws) == {ws[k] : k \in 1..Len(ws)}
Suspended == {waiting[h][1] : h \in {g \in Handles : waiting[g] # <<>>}}

\* C12: no missed wakeup.  A poll returns Pending only while the cell is
\* empty, and then a handle waking its task is in the registry; so once the
\* value is stored, every task whose last poll returned Pending has a
\* handle (a clone of a registered one) that send has notified or is about
\* to notify in the critical section of the store, and when send has
\* returned, has notified.
C12_NoMissedWakeup ==
    /\ (ev.op = "poll" /\ ev.res = Pending) => value = None /\ woken = <<>>
    /\ \A a \in Suspended : HandlesOf(a, wakers) # {}
    /\ value # None =>
          \A a \in Suspended :
              HandlesOf(a, woken) \cup HandlesOf(a, sender.todo) # {}
    /\ lock = Free /\ value # None =>
          \A a \in Suspended : HandlesOf(a, woken) # {}

\* C12 witness: send has just returned; two tasks whose last polls, on two
\* duplicates, returned Pending have both been notified and not yet re-polled.
C12_Witness ==
    /\ ev.op = "send" /\ value # None
    /\ Cardinality(Suspended) >= 2
    /\ \A a \in Suspended : HandlesOf(a, woken) # {}

\* The handle c is a clone of the registered handle w (of the waker w was
\* cloned from), and so wakes w's task.
CloneOf(c, w) == c[1] = w[1] /\ c[2] = w[2]

\* The handles in ns are, one for one and in order, clones of the first
\* Len(ns) handles of the registry from its entry number from on.
ClonesFrom(ns, from) ==
    /\ from + Len(ns) - 1 <= Len(wakers)
    /\ \A k \in 1..Len(ns) : CloneOf(ns[k], wakers[from + k - 1])

\* Every registered handle has had its one notification.
NotifiedAll == Len(woken) = Len(wakers) /\ ClonesFrom(woken, 1)

\* C13: send notifies the registered handles one after the other in
\* registration order, each exactly once, through the clone it makes of
\* each: what has been notified is always, entry for entry, a prefix of the
\* registry, no object in it twice; during the loop the rest of the registry
\* is still to come; and when send has returned it is the whole registry.
\* Nothing is notified before or after the one send.
C13_WakeOnceInOrder ==
    /\ ClonesFrom(woken, 1)
    /\ \A j, k \in 1..Len(woken) : j # k => woken[j] # woken[k]
    /\ sender.pc = "wake" =>
          /\ Len(woken) + Len(sender.todo) = Len(wakers)
          /\ ClonesFrom(sender.todo, Len(woken) + 1)
    /\ SendDone => NotifiedAll
    /\ sender.pc \in {"live", "dropped", "set"} => woken = <<>>

\* C13 witness: send has returned after notifying the registered handles of
\* two tasks, one of them through a clone that is a new object, and reads
\* have gone on since.
C13_Witness ==
    /\ SendDone /\ Len(wakers) >= 2 /\ NotifiedAll
    /\ wakers[1][1] # wakers[2][1]
    /\ woken # wakers
    /\ IsRead(ev)

\* C14: registration is deduplicated per task: the registry never holds two
\* handles of one task, however often and through whichever duplicates the
\* task has polled.
C14_OnePerTask ==
    \A a \in Tasks : Cardinality({k \in 1..Len(wakers) : wakers[k][1] = a}) <= 1

\* Every waker a poll may be called with.
AllWakers == {w \in Tasks \X WakerIds : w[2] \in WakersOf(w[1])}

\* What poll's deduplication does keep (C14): registration is deduplicated
\* against the handles that will_wake recognises, not per task.  A step
\* changes the registry only by a Pending poll appending the clone of a
\* waker that no registered handle will_wake; so a waker whose clones
\* will_wake recognises has at most one
\* entry however often it is polled with, no object is registered twice,
\* and a task has as many entries as its polls brought unrecognised wakers.
C14_OnePerWaker ==
    /\ [](\A j, k \in 1..Len(wakers) : j # k => wakers[j] # wakers[k])
    /\ [](\A w \in AllWakers :
             will_wake(CloneWaker(w, Clones(wakers, w) + 1), w) =>
                 Cardinality({k \in 1..Len(wakers) : will_wake(wakers[k], w)}) <= 1)
    /\ [][\/ wakers' = wakers
          \/ /\ ev'.op = "poll" /\ ev'.res = Pending
             /\ \E w \in AllWakers :
                   /\ \A k \in 1..Len(wakers) : ~will_wake(wakers[k], w)
                   /\ wakers' = Append(wakers, CloneWaker(w, Clones(wakers, w) + 1))]_vars

\* That case reached: task 1 has polled both duplicates, each time with the
\* waker whose clones will_wake does not recognise, and has two entries, one per
\* poll; its last poll returned Pending.
C14_Witness ==
    /\ Len(wakers) = 2
    /\ Cardinality(HandlesOf(1, wakers)) = 2
    /\ \A k \in 1..Len(wakers) : wakers[k][2] = "x"
    /\ waiting[1] # <<>> /\ waiting[2] # <<>> /\ waiting[1][1] = 1 /\ waiting[2][1] = 1
    /\ ev.op = "poll" /\ ev.res = Pending

\* C15: the Mutex is never held across a return to the caller or while
\* another task's code runs: when a try_recv, poll, recv or send has
\* returned nobody holds the guard, and no task's code runs, or waits, inside
\* a critical section of the channel.
C15_LockNotHeldAcross ==
    /\ (IsRead(ev) \/ ev.op = "send") => lock \in {Free, Poisoned}
    /\ sender.pc \in {"inline", "relock"} => lock \in {Free, Poisoned}

InSend == sender.pc \in {"set", "wake", "inline", "relock"}

\* C19: deadlock freedom.  The Mutex is always released again, and a send
\* that has started comes to its end, also when a wake() it issues runs code
\* that calls try_recv or poll on the same channel.
C19_DeadlockFree ==
    /\ (lock = BySender) ~> (lock # BySender)
    /\ InSend ~> SendDone

\* C16: the registry grows only while the cell is empty, and never shrinks:
\* once the value is set no step changes it, and the one step that changes
\* it is a poll that found no value, returned Pending and appended one handle.
C16_GrowsOnlyWhileEmpty ==
    /\ [][value # None => wakers' = wakers]_vars
    /\ [][wakers' # wakers =>
            /\ value = None /\ value' = None
            /\ ev'.op = "poll" /\ ev'.res = Pending
            /\ Len(wakers') = Len(wakers) + 1
            /\ \A k \in 1..Len(wakers) : wakers'[k] = wakers[k]]_vars

\* C16 witness: no waker was registered before the send; polls and try_recvs
\* have run since, the last of them a poll that returned Ready, and the
\* registry is still empty.
C16_Witness ==
    /\ SendDone /\ wakers = <<>>
    /\ ev.op = "poll" /\ ev.after /\ ev.res = value /\ value \in Values

\* The registered handles whose task waits behind no duplicate any more.
Stale == {w \in SeqRange(wakers) : w[1] \notin Suspended}

\* C17: a handle left in the registry by an abandoned task needs no
\* teardown.  With such a handle registered, a send that has the guard can
\* always take its next step; when it has returned the value is stored and
\* every registered handle, stale or not, has been notified; every read on
\* a remaining duplicate returns the value from then on; and a notification
\* changes nothing in the channel.
C17_StaleHandleHarmless ==
    /\ []((Stale # {} /\ sender.pc \in {"set", "wake"}) =>
             /\ lock = BySender
             /\ ENABLED (SendSet \/ SendWake \/ SendReturn))
    /\ []((Stale # {} /\ SendDone) =>
             /\ value = sender.arg /\ value \in Values
             /\ NotifiedAll
             /\ IsRead(ev) => ev.res = value)
    /\ [][woken' # woken =>
            /\ value' = value /\ wakers' = wakers /\ rx' = rx
            /\ waiting' = waiting /\ observed' = observed]_vars

\* C17 witness: task 1 registered a handle through duplicate 1, which is
\* dropped; send has notified that handle and the handle of task 2, which
\* waited on duplicate 2 and has now read the value there.
C17_Witness ==
    /\ rx[1] = "dropped" /\ Live(2)
    /\ wakers = <<<<1, "w">>, <<2, "w">>>> /\ NotifiedAll
    /\ <<1, "w">> \in Stale
    /\ SendDone /\ ev.op = "poll" /\ ev.res = sender.arg

\* C18: send takes the Mutex once, stores the value before it notifies any
\* handle, and lets go of the Mutex only at its return, with every handle
\* notified; so a poll or try_recv that runs because of a notification, or
\* after one, comes back with the value: it returns the value, never Pending
\* or None, is not left waiting for the Mutex send holds, and does not end
\* in a panic.
C18_StoreBeforeWake ==
    /\ [](woken # <<>> => value # None /\ value = sender.arg)
    /\ [](lock = BySender <=> InSend)
    /\ [][(lock # BySender /\ lock' = BySender) => value = None /\ woken = <<>>]_vars
    /\ [][(lock = BySender /\ lock' # BySender) =>
            /\ lock' = Free /\ ev'.op = "send"
            /\ value' # None /\ NotifiedAll']_vars
    /\ []((IsRead(ev) /\ woken # <<>>) => ev.res = value /\ ev.res \in Values)
    /\ [](woken # <<>> => sender.pc # "relock" /\ lock # Poisoned)

====
